---- MODULE Spec2Model ----
(***************************************************************************)
(* gojtp: JSON validation with threat-protection limits (src/jtp.go).      *)
(*                                                                         *)
(* A buffer is a sequence of byte values 0..255.  Go indexes from 0, TLA+  *)
(* sequences from 1: every index below is the Go index and At(data, i) is  *)
(* data[i].  An error value is a record [nil, msg]: nil is Go's nil error, *)
(* msg is the text Error() returns.  The validators return a record with   *)
(* the named results of the Go function (outi, ok, err) and the value the  *)
(* shared depth counter has when the function returns.                     *)
(***************************************************************************)
EXTENDS Integers, Sequences, FiniteSets, TLC

VARIABLES
    phase,      \* "new": inside New's loop; "failed": New returned an error;
                \* "ready": New returned the verifier; "verified": a Verify
                \* call has returned
    verifier,   \* the Verify value New builds and then returns
    nopts,      \* how many options New was given
    opt,        \* the option the loop applied last: [name, l]
    before,     \* the Verify value as it was before that option ran
    zeroOnly,   \* every option applied so far was given the value 0
    newErr,     \* the error New returns
    json,       \* the buffer of the last Verify call
    ok, err,    \* the pair that call returned
    unit,       \* a call of one function of the package by itself, as the
                \* tests of the package make them: its name, its arguments
                \* i and depth, and what it returned
    run         \* the execution of VerifyBytes byte by byte: where it is
                \* in the code, the index i, *depth, the calls that have
                \* not returned and what has been read so far

vars == <<phase, verifier, nopts, opt, before, zeroOnly, newErr, json, ok, err,
          unit, run>>

---------------------------------------------------------------------------
(* Bounds of the model.                                                    *)
MaxOpts == 2     \* options in one call of New
MaxLimit == 1    \* the largest maximum an option is given
MaxElems == 3    \* elements of a generated array, members of an object
MaxNest == 3     \* nesting depth of the generated chains of containers
MaxLen == 3      \* length of the buffers that are enumerated exhaustively
LongChars == 11  \* characters of the one long string and the one long key

---------------------------------------------------------------------------
(* Byte values the code compares against.                                  *)
TAB == 9
LF == 10
CR == 13
SPACE == 32
QUOTE == 34
PLUS == 43
COMMA == 44
MINUS == 45
DOT == 46
SLASH == 47
ZERO == 48
NINE == 57
COLON == 58
UpperA == 65
UpperE == 69
UpperF == 70
LBRACKET == 91
BACKSLASH == 92
RBRACKET == 93
LowerA == 97
LowerB == 98
LowerE == 101
LowerF == 102
LowerL == 108
LowerN == 110
LowerR == 114
LowerS == 115
LowerT == 116
LowerU == 117
LBRACE == 123
RBRACE == 125

At(data, i) == data[i + 1]

\* data[lo:hi]
Slice(data, lo, hi) == [k \in 1..(hi - lo) |-> data[lo + k]]

IsWS(b) == b \in {SPACE, TAB, LF, CR}

IsDigit(b) == b >= ZERO /\ b <= NINE

---------------------------------------------------------------------------
(* Errors.                                                                 *)
NilErr == [nil |-> TRUE, msg |-> ""]

NewError(text) == [nil |-> FALSE, msg |-> text]

DigitText(d) ==
    CASE d = 0 -> "0" [] d = 1 -> "1" [] d = 2 -> "2" [] d = 3 -> "3"
      [] d = 4 -> "4" [] d = 5 -> "5" [] d = 6 -> "6" [] d = 7 -> "7"
      [] d = 8 -> "8" [] d = 9 -> "9"

RECURSIVE NatText(_)
NatText(n) == IF n < 10 THEN DigitText(n)
              ELSE NatText(n \div 10) \o DigitText(n % 10)

\* the %d verb of fmt.Errorf
FmtD(n) == IF n < 0 THEN "-" \o NatText(0 - n) ELSE NatText(n)

objectKeyValueLength == "maxKeyLengthReached"
stringValueLength == "maxStringValueLengthReached"

ErrInvalidJSON == NewError("jtp.MalformedJSON")

\* LimitError with the two numbers in each other's place
LimitErrorSwapped(strType, maxAllowed, found) ==
    NewError("jtp." \o strType \o ".Max-[" \o FmtD(found)
             \o "]-Allowed.Found-[" \o FmtD(maxAllowed) \o "]")

\* fmt.Errorf("jtp.%s.Max-[%d]-Allowed.Found-[%d]", strType, maxAllowed, found)
LimitError(strType, maxAllowed, found) ==
    NewError("jtp." \o strType \o ".Max-[" \o FmtD(maxAllowed)
             \o "]-Allowed.Found-[" \o FmtD(found) \o "]")

DepthError(v, depth) ==
    LimitError("maxContainerDepthReached", v.JSONContainerDepth, depth)

ArrayCountError(v, child) ==
    LimitError("maxArrayElementCountReached", v.MaxArrayElementCount, child)

EntryCountError(v, entries) ==
    LimitError("maxObjectEntryCountReached", v.ObjectEntryCount, entries)

NegativeError(text, l) == NewError(text \o FmtD(l))

---------------------------------------------------------------------------
(* utf8.RuneCount as validateStringLength uses it: every byte that does    *)
(* not start a well-formed multi-byte sequence counts as one rune of       *)
(* width 1.                                                                *)
RuneWidth(p, i) ==
    LET c == At(p, i)
        np == Len(p)
        size == IF c >= 194 /\ c <= 223 THEN 2
                ELSE IF c >= 224 /\ c <= 239 THEN 3
                ELSE IF c >= 240 /\ c <= 244 THEN 4
                ELSE 1
        lo == IF c = 224 THEN 160 ELSE IF c = 240 THEN 144 ELSE 128
        hi == IF c = 237 THEN 159 ELSE IF c = 244 THEN 143 ELSE 191
        cont(k) == At(p, i + k) >= 128 /\ At(p, i + k) <= 191
    IN  IF c < 128 \/ size = 1 THEN 1
        ELSE IF i + size > np THEN 1
        ELSE IF At(p, i + 1) < lo \/ hi < At(p, i + 1) THEN 1
        ELSE IF size = 2 THEN 2
        ELSE IF ~cont(2) THEN 1
        ELSE IF size = 3 THEN 3
        ELSE IF ~cont(3) THEN 1
        ELSE 4

RECURSIVE RuneCountFrom(_, _)
RuneCountFrom(p, i) ==
    IF i >= Len(p) THEN 0 ELSE 1 + RuneCountFrom(p, i + RuneWidth(p, i))

\* RuneCount counting bytes: len(str) in its place
RuneCountBytes(p) == Len(p)

RuneCount(p) == RuneCountFrom(p, 0)

\* validateStringLength(data, startIndex, endIndex, enabled, maxAllowed, strType)
validateStringLength(data, startIndex, endIndex, enabled, maxAllowed, strType) ==
    LET l == RuneCount(Slice(data, startIndex, endIndex))
    IN  IF enabled /\ l - 2 > maxAllowed
        THEN LimitError(strType, maxAllowed, l - 2)
        ELSE NilErr

---------------------------------------------------------------------------
(* Scanners.                                                               *)
Scan(i, b) == [outi |-> i, ok |-> b]

IsHex(b) == \/ (b >= ZERO /\ b <= NINE)
            \/ (b >= LowerA /\ b <= LowerF)
            \/ (b >= UpperA /\ b <= UpperF)

\* the loop over j of the \u case: i is the index before the increment.
\* Returns the index of the last hex digit, or the failure.
RECURSIVE HexDigits(_, _, _)
HexDigits(data, i, j) ==
    IF j >= 4 THEN Scan(i, TRUE)
    ELSE IF i + 1 >= Len(data) THEN Scan(i + 1, FALSE)
    ELSE IF ~IsHex(At(data, i + 1)) THEN Scan(i + 1, FALSE)
    ELSE HexDigits(data, i + 1, j + 1)

\* isValidateString without the backslash case: the first quote ends the
\* string
RECURSIVE isValidateStringNoEscape(_, _)
isValidateStringNoEscape(data, i) ==
    IF i >= Len(data) THEN Scan(i, FALSE)
    ELSE IF At(data, i) < SPACE THEN Scan(i, FALSE)
    ELSE IF At(data, i) = QUOTE THEN Scan(i + 1, TRUE)
    ELSE isValidateStringNoEscape(data, i + 1)

RECURSIVE isValidateString(_, _)
isValidateString(data, i) ==
    IF i >= Len(data) THEN Scan(i, FALSE)
    ELSE IF At(data, i) < SPACE THEN Scan(i, FALSE)
    ELSE IF At(data, i) = BACKSLASH THEN
        IF i + 1 = Len(data) THEN Scan(i + 1, FALSE)
        ELSE IF At(data, i + 1) \in {QUOTE, BACKSLASH, SLASH, LowerB, LowerF,
                                     LowerN, LowerR, LowerT}
             THEN isValidateString(data, i + 2)
        ELSE IF At(data, i + 1) = LowerU THEN
             LET h == HexDigits(data, i + 1, 0)
             IN  IF h.ok THEN isValidateString(data, h.outi + 1) ELSE h
        ELSE Scan(i + 1, FALSE)
    ELSE IF At(data, i) = QUOTE THEN Scan(i + 1, TRUE)
    ELSE isValidateString(data, i + 1)

isValidTrue(data, i) ==
    IF i + 3 <= Len(data) /\ At(data, i) = LowerR /\ At(data, i + 1) = LowerU
       /\ At(data, i + 2) = LowerE
    THEN Scan(i + 3, TRUE) ELSE Scan(i, FALSE)

isValidFalse(data, i) ==
    IF i + 4 <= Len(data) /\ At(data, i) = LowerA /\ At(data, i + 1) = LowerL
       /\ At(data, i + 2) = LowerS /\ At(data, i + 3) = LowerE
    THEN Scan(i + 4, TRUE) ELSE Scan(i, FALSE)

isValidNull(data, i) ==
    IF i + 3 <= Len(data) /\ At(data, i) = LowerU /\ At(data, i + 1) = LowerL
       /\ At(data, i + 2) = LowerL
    THEN Scan(i + 3, TRUE) ELSE Scan(i, FALSE)

\* for ; i < len(data); i++ { if digit { continue }; break }
RECURSIVE SkipDigits(_, _)
SkipDigits(data, i) ==
    IF i < Len(data) /\ IsDigit(At(data, i)) THEN SkipDigits(data, i + 1) ELSE i

\* the exponent part, entered with data[i] = 'e' or 'E'
NumberExp(data, i) ==
    LET i1 == i + 1
        i2 == IF i1 < Len(data) /\ At(data, i1) \in {PLUS, MINUS}
              THEN i1 + 1 ELSE i1
    IN  IF i1 = Len(data) THEN Scan(i1, FALSE)
        ELSE IF i2 = Len(data) THEN Scan(i2, FALSE)
        ELSE IF ~IsDigit(At(data, i2)) THEN Scan(i2, FALSE)
        ELSE Scan(SkipDigits(data, i2 + 1), TRUE)

\* from the comment "exp" on
NumberTail(data, i) ==
    IF i = Len(data) THEN Scan(i, TRUE)
    ELSE IF At(data, i) \in {LowerE, UpperE} THEN NumberExp(data, i)
    ELSE Scan(i, TRUE)

\* from the comment "frac" on
NumberFrac(data, i) ==
    IF i = Len(data) THEN Scan(i, TRUE)
    ELSE IF At(data, i) = DOT THEN
        IF i + 1 = Len(data) THEN Scan(i + 1, FALSE)
        ELSE IF ~IsDigit(At(data, i + 1)) THEN Scan(i + 1, FALSE)
        ELSE NumberTail(data, SkipDigits(data, i + 2))
    ELSE NumberTail(data, i)

\* isValidNumber(data, i): called with i one past the first byte of the number
isValidNumber(data, i) ==
    LET i0 == i - 1
        i1 == IF At(data, i0) = MINUS THEN i0 + 1 ELSE i0
    IN  IF i1 = Len(data) THEN Scan(i1, FALSE)
        ELSE IF At(data, i1) = ZERO THEN NumberFrac(data, i1 + 1)
        ELSE NumberFrac(data, SkipDigits(data, i1))

RECURSIVE isValidComma(_, _, _)
isValidComma(data, i, end) ==
    IF i >= Len(data) THEN Scan(i, FALSE)
    ELSE IF IsWS(At(data, i)) THEN isValidComma(data, i + 1, end)
    ELSE IF At(data, i) = COMMA \/ At(data, i) = end THEN Scan(i, TRUE)
    ELSE Scan(i, FALSE)

RECURSIVE isValidColon(_, _)
isValidColon(data, i) ==
    IF i >= Len(data) THEN Scan(i, FALSE)
    ELSE IF IsWS(At(data, i)) THEN isValidColon(data, i + 1)
    ELSE IF At(data, i) = COLON THEN Scan(i + 1, TRUE)
    ELSE Scan(i, FALSE)

---------------------------------------------------------------------------
(* The validators.  depth is the value of *depth at the call; the result's *)
(* depth field is its value at the return.                                 *)
Ret(i, b, e, d) == [outi |-> i, ok |-> b, err |-> e, depth |-> d]

DepthExceeded(v, depth) ==
    v.jsonContainerDepthEnabled /\ v.JSONContainerDepth < depth

RECURSIVE validany(_, _, _, _)
RECURSIVE validanyLoop(_, _, _, _)
RECURSIVE isValidArray(_, _, _, _)
RECURSIVE ArrayLoop(_, _, _, _)
RECURSIVE ArrayElements(_, _, _, _, _, _)
RECURSIVE isValidObject(_, _, _, _)
RECURSIVE ObjectLoop(_, _, _, _)
RECURSIVE ObjectKey(_, _, _, _, _)
RECURSIVE ObjectNextKey(_, _, _, _, _)

\* the string case of validany: the scan result and the length error are
\* returned together, whatever the scan result is
validanyString(data, i, depth, v) ==
    LET s == isValidateString(data, i + 1)
    IN  Ret(s.outi, s.ok,
            validateStringLength(data, i, s.outi, v.stringLenEnabled,
                                 v.StringValueLen, stringValueLength),
            depth)

\* the for loop of validany
validanyLoop(data, i, depth, v) ==
    IF i >= Len(data) THEN Ret(i, FALSE, NilErr, depth)
    ELSE LET b == At(data, i) IN
         IF IsWS(b) THEN validanyLoop(data, i + 1, depth, v)
         ELSE IF b = LBRACE THEN isValidObject(data, i + 1, depth + 1, v)
         ELSE IF b = LBRACKET THEN isValidArray(data, i + 1, depth + 1, v)
         ELSE IF b = QUOTE THEN validanyString(data, i, depth, v)
         ELSE IF b = MINUS \/ IsDigit(b) THEN
              LET n == isValidNumber(data, i + 1)
              IN  Ret(n.outi, n.ok, NilErr, depth)
         ELSE IF b = LowerT THEN
              LET t == isValidTrue(data, i + 1)
              IN  Ret(t.outi, t.ok, NilErr, depth)
         ELSE IF b = LowerF THEN
              \* outi, ok = isValidFalse(data, i+1) is followed by no return:
              \* control leaves the switch and the loop goes on at i+1; every
              \* later return assigns outi and ok again
              validanyLoop(data, i + 1, depth, v)
         ELSE IF b = LowerN THEN
              LET n == isValidNull(data, i + 1)
              IN  Ret(n.outi, n.ok, NilErr, depth)
         ELSE Ret(i, FALSE, NilErr, depth)

validany(data, i, depth, v) ==
    IF DepthExceeded(v, depth) THEN Ret(i, FALSE, DepthError(v, depth), depth)
    ELSE validanyLoop(data, i, depth, v)

\* the inner loop of isValidArray (the default case); e is the value of err
ArrayElements(data, i, depth, v, child, e) ==
    IF i >= Len(data)
    THEN \* the inner loop ends, the outer loop increments i and ends too
         Ret(i + 1, FALSE, e, depth)
    ELSE LET r == validany(data, i, depth, v) IN
         IF ~r.ok THEN Ret(r.outi, FALSE, r.err, r.depth)
         ELSE LET c == isValidComma(data, r.outi, RBRACKET) IN
              IF ~c.ok THEN Ret(c.outi, FALSE, r.err, r.depth)
              ELSE IF v.arrayEntryCountEnabled
                      /\ child + 1 > v.MaxArrayElementCount
                   THEN Ret(c.outi, FALSE, ArrayCountError(v, child + 1), r.depth)
              ELSE IF At(data, c.outi) = RBRACKET
                   THEN Ret(c.outi + 1, TRUE, r.err, r.depth - 1)
              ELSE ArrayElements(data, c.outi + 1, r.depth, v, child + 1, r.err)

\* the outer loop of isValidArray
ArrayLoop(data, i, depth, v) ==
    IF i >= Len(data) THEN Ret(i, FALSE, NilErr, depth)
    ELSE IF IsWS(At(data, i)) THEN ArrayLoop(data, i + 1, depth, v)
    ELSE IF At(data, i) = RBRACKET THEN Ret(i + 1, TRUE, NilErr, depth - 1)
    ELSE ArrayElements(data, i, depth, v, 0, NilErr)

isValidArray(data, i, depth, v) ==
    IF DepthExceeded(v, depth) THEN Ret(i, FALSE, DepthError(v, depth), depth)
    ELSE ArrayLoop(data, i, depth, v)

\* from the label key on, with data[i] the opening quote of the key
ObjectKey(data, i, depth, v, entries) ==
    LET s == isValidateString(data, i + 1) IN
    IF ~s.ok THEN Ret(s.outi, FALSE, NilErr, depth)
    ELSE IF v.objectEntryCountEnabled /\ v.ObjectEntryCount < entries + 1
         THEN Ret(s.outi, FALSE, EntryCountError(v, entries + 1), depth)
    ELSE LET k == validateStringLength(data, i, s.outi, v.objectKeyLengthEnabled,
                                       v.ObjectKeyLength, objectKeyValueLength) IN
         IF ~k.nil THEN Ret(s.outi, FALSE, k, depth)
         ELSE LET c == isValidColon(data, s.outi) IN
              IF ~c.ok THEN Ret(c.outi, FALSE, k, depth)
              ELSE LET r == validany(data, c.outi, depth, v) IN
                   IF ~r.ok \/ ~r.err.nil THEN Ret(r.outi, FALSE, r.err, r.depth)
                   ELSE LET m == isValidComma(data, r.outi, RBRACE) IN
                        IF ~m.ok THEN Ret(m.outi, FALSE, r.err, r.depth)
                        ELSE IF At(data, m.outi) = RBRACE
                             THEN Ret(m.outi + 1, TRUE, r.err, r.depth - 1)
                        ELSE ObjectNextKey(data, m.outi + 1, r.depth, v,
                                           entries + 1)

\* the loop after a comma, up to the goto key
ObjectNextKey(data, i, depth, v, entries) ==
    IF i >= Len(data) THEN Ret(i, FALSE, NilErr, depth)
    ELSE IF IsWS(At(data, i)) THEN ObjectNextKey(data, i + 1, depth, v, entries)
    ELSE IF At(data, i) = QUOTE THEN ObjectKey(data, i, depth, v, entries)
    ELSE Ret(i, FALSE, NilErr, depth)

\* the outer loop of isValidObject
ObjectLoop(data, i, depth, v) ==
    IF i >= Len(data) THEN Ret(i, FALSE, NilErr, depth)
    ELSE IF IsWS(At(data, i)) THEN ObjectLoop(data, i + 1, depth, v)
    ELSE IF At(data, i) = RBRACE THEN Ret(i + 1, TRUE, NilErr, depth - 1)
    ELSE IF At(data, i) = QUOTE THEN ObjectKey(data, i, depth, v, 0)
    ELSE Ret(i, FALSE, NilErr, depth)

isValidObject(data, i, depth, v) ==
    IF DepthExceeded(v, depth) THEN Ret(i, FALSE, DepthError(v, depth), depth)
    ELSE ObjectLoop(data, i, depth, v)

\* the loop of isValidJSON after the value
RECURSIVE TrailingWS(_, _)
TrailingWS(data, i) ==
    IF i >= Len(data) THEN Scan(i, TRUE)
    ELSE IF IsWS(At(data, i)) THEN TrailingWS(data, i + 1)
    ELSE Scan(i, FALSE)

RECURSIVE isValidJSON(_, _, _, _)
isValidJSON(data, i, depth, v) ==
    IF i >= Len(data) THEN Ret(i, FALSE, NilErr, depth)
    ELSE IF IsWS(At(data, i)) THEN isValidJSON(data, i + 1, depth, v)
    ELSE LET r == validany(data, i, depth, v) IN
         IF ~r.ok \/ ~r.err.nil THEN Ret(r.outi, FALSE, r.err, r.depth)
         ELSE LET t == TrailingWS(data, r.outi)
              IN  Ret(t.outi, t.ok, r.err, r.depth)

\* VerifyBytes without the substitution of ErrInvalidJSON
VerifyBytesNoSentinel(v, data) ==
    LET r == isValidJSON(data, 0, 0, v)
    IN  [ok |-> r.ok, err |-> r.err]

\* Verify.VerifyBytes(json): the pair (ok, err) it returns
VerifyBytes(v, data) ==
    LET r == isValidJSON(data, 0, 0, v)
    IN  [ok |-> r.ok,
         err |-> IF r.err.nil /\ r.ok = FALSE THEN ErrInvalidJSON ELSE r.err]

\* Verify.VerifyString(json): []byte(json) is the same bytes
VerifyString(v, data) == VerifyBytes(v, data)

---------------------------------------------------------------------------
(* Configuration.                                                          *)
ZeroVerify ==
    [MaxArrayElementCount |-> 0, arrayEntryCountEnabled |-> FALSE,
     JSONContainerDepth |-> 0, jsonContainerDepthEnabled |-> FALSE,
     ObjectEntryCount |-> 0, objectEntryCountEnabled |-> FALSE,
     ObjectKeyLength |-> 0, objectKeyLengthEnabled |-> FALSE,
     StringValueLen |-> 0, stringLenEnabled |-> FALSE]

\* what an Option returns: the verifier as it leaves it, and the error
Opt(v, e) == [verifier |-> v, err |-> e]

WithMaxArrayElementCount(l, v) ==
    IF l = 0 THEN Opt(v, NilErr)
    ELSE IF l < 0
    THEN Opt(v, NegativeError("jtp: max array element count cannot be negative ", l))
    ELSE Opt([v EXCEPT !.MaxArrayElementCount = l,
                       !.arrayEntryCountEnabled = TRUE], NilErr)

WithMaxContainerDepth(l, v) ==
    IF l = 0 THEN Opt(v, NilErr)
    ELSE IF l < 0
    THEN Opt(v, NegativeError("jtp: max Container depth cannot be negative ", l))
    ELSE Opt([v EXCEPT !.JSONContainerDepth = l,
                       !.jsonContainerDepthEnabled = TRUE], NilErr)

WithMaxObjectKeyLength(l, v) ==
    IF l = 0 THEN Opt(v, NilErr)
    ELSE IF l < 0
    THEN Opt(v, NegativeError("jtp: max object key length cannot be negative ", l))
    ELSE Opt([v EXCEPT !.ObjectKeyLength = l,
                       !.objectKeyLengthEnabled = TRUE], NilErr)

\* WithMaxStringLength without the test for zero
WithMaxStringLengthNoZeroCheck(l, v) ==
    IF l < 0
    THEN Opt(v, NegativeError("jtp: max string length cannot be negative ", l))
    ELSE Opt([v EXCEPT !.StringValueLen = l,
                       !.stringLenEnabled = TRUE], NilErr)

WithMaxStringLength(l, v) ==
    IF l = 0 THEN Opt(v, NilErr)
    ELSE IF l < 0
    THEN Opt(v, NegativeError("jtp: max string length cannot be negative ", l))
    ELSE Opt([v EXCEPT !.StringValueLen = l,
                       !.stringLenEnabled = TRUE], NilErr)

WithMaxObjectEntryCount(l, v) ==
    IF l = 0 THEN Opt(v, NilErr)
    ELSE IF l < 0
    THEN Opt(v, NegativeError("jtp: max array element count cannot be negative ", l))
    ELSE Opt([v EXCEPT !.ObjectEntryCount = l,
                       !.objectEntryCountEnabled = TRUE], NilErr)

---------------------------------------------------------------------------
(* The JSON grammar of RFC 8259, and the measures the limits are about.    *)
(* This is what the claims compare the code with: Measure(data) says       *)
(* whether data is whitespace, one JSON value, whitespace, and if so how   *)
(* deep its containers nest, and, in the order of the text, the number of  *)
(* characters of every string value (strs, and in strEnd the index just    *)
(* past its closing quote) and of every key (keys), the number of          *)
(* elements of every array (arrs) and of members of every object (objs),   *)
(* each container listed where it opens.  A character is one ASCII byte or *)
(* one multi-byte UTF-8 sequence; an escape counts the characters it is    *)
(* written with.                                                           *)
Has(data, i, b) == i < Len(data) /\ At(data, i) = b

RECURSIVE GrammarWS(_, _)
GrammarWS(data, i) ==
    IF i < Len(data) /\ At(data, i) \in {SPACE, TAB, LF, CR}
    THEN GrammarWS(data, i + 1) ELSE i

RECURSIVE GrammarDigits(_, _)
GrammarDigits(data, i) ==
    IF i < Len(data) /\ At(data, i) \in 48..57 THEN GrammarDigits(data, i + 1) ELSE i

NoToken == [ok |-> FALSE, end |-> 0, n |-> 0]

Token(e, n) == [ok |-> TRUE, end |-> e, n |-> n]

\* number = [ minus ] int [ frac ] [ exp ]
GrammarNumber(data, i) ==
    LET a == IF Has(data, i, MINUS) THEN i + 1 ELSE i
        b == IF Has(data, a, ZERO) THEN a + 1 ELSE GrammarDigits(data, a)
        c == IF Has(data, b, DOT) THEN GrammarDigits(data, b + 1) ELSE b
        hasExp == Has(data, c, LowerE) \/ Has(data, c, UpperE)
        d == IF hasExp /\ (Has(data, c + 1, PLUS) \/ Has(data, c + 1, MINUS))
             THEN c + 2 ELSE c + 1
        e == IF hasExp THEN GrammarDigits(data, d) ELSE c
    IN  IF b = a THEN NoToken
        ELSE IF Has(data, b, DOT) /\ c = b + 1 THEN NoToken
        ELSE IF hasExp /\ e = d THEN NoToken
        ELSE Token(e, 0)

Utf8Width(b) ==
    IF b < 128 THEN 1
    ELSE IF b >= 194 /\ b <= 223 THEN 2
    ELSE IF b >= 224 /\ b <= 239 THEN 3
    ELSE IF b >= 240 /\ b <= 244 THEN 4
    ELSE 0

\* the characters of a string after its opening quote; n counts them
RECURSIVE GrammarChars(_, _, _)
GrammarChars(data, i, n) ==
    IF i >= Len(data) THEN NoToken
    ELSE LET b == At(data, i)
             w == Utf8Width(b)
         IN  IF b = QUOTE THEN Token(i + 1, n)
             ELSE IF b < 32 THEN NoToken
             ELSE IF b = BACKSLASH THEN
                  IF i + 1 >= Len(data) THEN NoToken
                  ELSE IF At(data, i + 1) \in {QUOTE, BACKSLASH, SLASH, LowerB,
                                               LowerF, LowerN, LowerR, LowerT}
                       THEN GrammarChars(data, i + 2, n + 2)
                  ELSE IF /\ At(data, i + 1) = LowerU
                          /\ i + 5 < Len(data)
                          /\ \A k \in 2..5 :
                                At(data, i + k) \in (48..57) \cup (65..70) \cup (97..102)
                       THEN GrammarChars(data, i + 6, n + 6)
                  ELSE NoToken
             ELSE IF w = 0 \/ i + w > Len(data) THEN NoToken
             ELSE IF \E k \in 1..(w - 1) : At(data, i + k) \notin 128..191
                  THEN NoToken
             ELSE GrammarChars(data, i + w, n + 1)

GrammarString(data, i) ==
    IF Has(data, i, QUOTE) THEN GrammarChars(data, i + 1, 0) ELSE NoToken

IsAt(data, i, word) ==
    i + Len(word) <= Len(data) /\ SubSeq(data, i + 1, i + Len(word)) = word

NoValue == [ok |-> FALSE, end |-> 0, depth |-> 0, strs |-> <<>>, strEnd |-> <<>>,
            keys |-> <<>>, arrs |-> <<>>, objs |-> <<>>]

Leaf(e) == [NoValue EXCEPT !.ok = TRUE, !.end = e]

Max2(a, b) == IF a >= b THEN a ELSE b

\* the measures of a container so far (acc) with one more child (v)
Grow(acc, v, e) ==
    [ok |-> TRUE, end |-> e, depth |-> Max2(acc.depth, v.depth),
     strs |-> acc.strs \o v.strs, strEnd |-> acc.strEnd \o v.strEnd,
     keys |-> acc.keys \o v.keys,
     arrs |-> acc.arrs \o v.arrs, objs |-> acc.objs \o v.objs]

RECURSIVE GrammarValue(_, _)
RECURSIVE GrammarElements(_, _, _, _)
RECURSIVE GrammarMembers(_, _, _, _)

\* the elements of an array from index i on; count elements came before
GrammarElements(data, i, count, acc) ==
    LET v == GrammarValue(data, GrammarWS(data, i))
        j == GrammarWS(data, v.end)
    IN  IF ~v.ok THEN NoValue
        ELSE IF Has(data, j, COMMA)
             THEN GrammarElements(data, j + 1, count + 1, Grow(acc, v, j))
        ELSE IF Has(data, j, RBRACKET)
             THEN LET all == Grow(acc, v, j + 1)
                  IN  [all EXCEPT !.depth = @ + 1, !.arrs = <<count + 1>> \o @]
        ELSE NoValue

\* the members of an object from index i on
GrammarMembers(data, i, count, acc) ==
    LET k == GrammarString(data, GrammarWS(data, i))
        c == GrammarWS(data, k.end)
        v == GrammarValue(data, GrammarWS(data, c + 1))
        j == GrammarWS(data, v.end)
        withKey == [acc EXCEPT !.keys = @ \o <<k.n>>]
    IN  IF ~k.ok \/ ~Has(data, c, COLON) THEN NoValue
        ELSE IF ~v.ok THEN NoValue
        ELSE IF Has(data, j, COMMA)
             THEN GrammarMembers(data, j + 1, count + 1, Grow(withKey, v, j))
        ELSE IF Has(data, j, RBRACE)
             THEN LET all == Grow(withKey, v, j + 1)
                  IN  [all EXCEPT !.depth = @ + 1, !.objs = <<count + 1>> \o @]
        ELSE NoValue

\* one value that starts at index i
GrammarValue(data, i) ==
    IF i >= Len(data) THEN NoValue
    ELSE LET b == At(data, i) IN
         IF b = LBRACKET THEN
            LET j == GrammarWS(data, i + 1)
            IN  IF Has(data, j, RBRACKET)
                THEN [Leaf(j + 1) EXCEPT !.depth = 1, !.arrs = <<0>>]
                ELSE GrammarElements(data, j, 0, Leaf(j))
         ELSE IF b = LBRACE THEN
            LET j == GrammarWS(data, i + 1)
            IN  IF Has(data, j, RBRACE)
                THEN [Leaf(j + 1) EXCEPT !.depth = 1, !.objs = <<0>>]
                ELSE GrammarMembers(data, j, 0, Leaf(j))
         ELSE IF b = QUOTE THEN
            LET t == GrammarString(data, i)
            IN  IF t.ok
                THEN [Leaf(t.end) EXCEPT !.strs = <<t.n>>, !.strEnd = <<t.end>>]
                ELSE NoValue
         ELSE IF b = MINUS \/ b \in 48..57 THEN
            LET t == GrammarNumber(data, i)
            IN  IF t.ok THEN Leaf(t.end) ELSE NoValue
         ELSE IF IsAt(data, i, <<116, 114, 117, 101>>) THEN Leaf(i + 4)
         ELSE IF IsAt(data, i, <<102, 97, 108, 115, 101>>) THEN Leaf(i + 5)
         ELSE IF IsAt(data, i, <<110, 117, 108, 108>>) THEN Leaf(i + 4)
         ELSE NoValue

\* JSON-text = ws value ws
Measure(data) ==
    LET v == GrammarValue(data, GrammarWS(data, 0))
    IN  IF v.ok /\ GrammarWS(data, v.end) = Len(data) THEN v ELSE NoValue

IsJSONText(data) == Measure(data).ok

SeqMax(s) == IF s = <<>> THEN 0 ELSE CHOOSE m \in {s[k] : k \in 1..Len(s)} :
                                         \A k \in 1..Len(s) : s[k] <= m

---------------------------------------------------------------------------
(* The buffers the Verify calls are given.  Documents are built as text:   *)
(* scalars, arrays and objects over a small pool of elements, containers   *)
(* around them, chains of nested containers, whitespace variants, and from *)
(* these the truncated and bracket-mismatched buffers.                     *)
Rep(b, n) == [k \in 1..n |-> b]

Quoted(content) == <<QUOTE>> \o content \o <<QUOTE>>

TextNull == <<LowerN, LowerU, LowerL, LowerL>>
TextTrue == <<LowerT, LowerR, LowerU, LowerE>>
TextFalse == <<LowerF, LowerA, LowerL, LowerS, LowerE>>
TextOne == <<49>>
TextNumbers == {<<ZERO>>, <<MINUS, 49, 50>>, <<50, DOT, 53, LowerE, PLUS, 49>>}

\* U+00E9 (2 bytes), U+4E16 (3 bytes), U+1F600 (4 bytes)
CharE9 == <<195, 169>>
Char4E16 == <<228, 184, 150>>
Char1F600 == <<240, 159, 152, 128>>

\* string contents: runs of 'a', multi-byte characters, escapes
Contents ==
    {Rep(LowerA, n) : n \in 0..(MaxLimit + 1)}
    \cup {Rep(LowerA, LongChars)}
    \cup {CharE9, Char4E16 \o CharE9, Char1F600 \o <<LowerA>> \o Char4E16,
          <<BACKSLASH, LowerN>>,
          <<BACKSLASH, LowerU, ZERO, ZERO, LowerE, NINE>>}

TextStrings == {Quoted(c) : c \in Contents}

Scalars == {TextNull, TextTrue, TextFalse} \cup TextNumbers \cup TextStrings

\* the elements of the wide containers
Pool == {TextOne, Quoted(Rep(LowerA, MaxLimit)), Quoted(Rep(LowerA, MaxLimit + 1))}

RECURSIVE Join(_, _, _)
Join(parts, sep, k) ==
    IF k > Len(parts) THEN <<>>
    ELSE (IF k > 1 THEN sep ELSE <<>>) \o parts[k] \o Join(parts, sep, k + 1)

ArrayText(elems, sep) == <<LBRACKET>> \o Join(elems, sep, 1) \o <<RBRACKET>>

\* the key of the k-th member: k characters long
KeyAt(k) == Quoted(Rep(107, k))

Member(key, val) == key \o <<COLON>> \o val

ObjectText(vals, sep) ==
    <<LBRACE>> \o Join([k \in 1..Len(vals) |-> Member(KeyAt(k), vals[k])], sep, 1)
    \o <<RBRACE>>

Tuples(S, n) == UNION {[1..k -> S] : k \in 0..n}

WideArrays == {ArrayText(e, <<COMMA>>) : e \in Tuples(Pool, MaxElems)}
WideObjects == {ObjectText(e, <<COMMA>>) : e \in Tuples(Pool, MaxElems)}

\* single-member objects over the key contents
KeyedObjects ==
    {<<LBRACE>> \o Member(Quoted(c), TextOne) \o <<RBRACE>> : c \in Contents}

\* what the containers of the next level hold
Inner == Scalars
         \cup {ArrayText(e, <<COMMA>>) : e \in Tuples(Pool, 2)}
         \cup {ObjectText(e, <<COMMA>>) : e \in Tuples(Pool, 2)}

Wrapped ==
    UNION {{ArrayText(<<x>>, <<COMMA>>), ObjectText(<<x>>, <<COMMA>>),
            ArrayText(<<TextOne, x>>, <<COMMA>>),
            ArrayText(<<x, TextOne>>, <<COMMA>>),
            ObjectText(<<TextOne, x>>, <<COMMA>>),
            ObjectText(<<x, TextOne>>, <<COMMA>>)} : x \in Inner}

RECURSIVE NestArray(_, _)
NestArray(x, n) == IF n = 0 THEN x ELSE ArrayText(<<NestArray(x, n - 1)>>, <<>>)

RECURSIVE NestObject(_, _)
NestObject(x, n) == IF n = 0 THEN x ELSE ObjectText(<<NestObject(x, n - 1)>>, <<>>)

\* siblings at every level: [ [], [ [], [...] ] ]
RECURSIVE NestSiblings(_, _)
NestSiblings(x, n) ==
    IF n = 0 THEN x
    ELSE ArrayText(<<ArrayText(<<>>, <<>>), NestSiblings(x, n - 1)>>, <<COMMA>>)

Chains ==
    UNION {{NestArray(x, n), NestObject(x, n), NestSiblings(x, n),
            NestArray(NestObject(x, 1), n)} :
           x \in {ArrayText(<<>>, <<>>), ObjectText(<<>>, <<>>), TextOne,
                  Quoted(Rep(LowerA, MaxLimit + 1))},
           n \in 1..(MaxNest + 1)}

\* a literal, then a container, a long string or a number
Preceded ==
    UNION {{ArrayText(<<lit, x>>, <<COMMA>>), ObjectText(<<lit, x>>, <<COMMA>>)} :
           lit \in {TextNull, TextTrue, TextFalse},
           x \in Pool \cup {ArrayText(<<>>, <<>>), ObjectText(<<>>, <<>>),
                             ArrayText(<<TextOne, TextOne>>, <<COMMA>>),
                             ObjectText(<<TextOne, TextOne>>, <<COMMA>>)}}

\* whitespace before, between and after the tokens
Spaced ==
    {<<SPACE>> \o x \o <<LF>> : x \in Scalars}
    \cup {<<TAB>> \o ArrayText(e, <<SPACE, COMMA, CR, LF>>) \o <<SPACE, SPACE>> :
          e \in Tuples(Pool, 2)}
    \cup {<<LBRACE, SPACE>>
          \o Join([k \in 1..Len(e) |->
                     KeyAt(k) \o <<SPACE, COLON, TAB>> \o e[k]],
                  <<LF, COMMA, SPACE>>, 1)
          \o <<SPACE, RBRACE, LF>> : e \in Tuples(Pool, 2)}

Docs == Scalars \cup WideArrays \cup WideObjects \cup KeyedObjects
        \cup Wrapped \cup Chains \cup Preceded \cup Spaced

\* the documents that are cut short or have a bracket exchanged
Containers == {d \in WideArrays \cup WideObjects : Len(d) <= 14}
              \cup KeyedObjects \cup Chains

Breakable == Containers \cup Scalars

Truncated == UNION {{SubSeq(d, 1, n) : n \in 0..(Len(d) - 1)} : d \in Breakable}

OtherBracket(b) ==
    IF b = RBRACKET THEN RBRACE ELSE IF b = RBRACE THEN RBRACKET ELSE b

Mismatched ==
    {[d EXCEPT ![Len(d)] = OtherBracket(d[Len(d)])] : d \in Containers}

Inputs == Docs \cup Truncated \cup Mismatched

\* every buffer of at most MaxLen bytes over these bytes
Alphabet == {SPACE, QUOTE, COMMA, MINUS, DOT, ZERO, 49, COLON, LBRACKET,
             BACKSLASH, RBRACKET, LowerA, LowerE, LowerF, LowerN, LowerT,
             LBRACE, RBRACE}

AllBuffers == Tuples(Alphabet, MaxLen)

---------------------------------------------------------------------------
(* New(opt...) and the Verify calls.                                       *)
LimitInputs == (0 - 1)..MaxLimit

NoOpt == [name |-> "", l |-> 0]

\* no function has been called by itself
NoCall == [fn |-> "", i |-> 0, depth |-> 0, res |-> Ret(0, FALSE, NilErr, 0)]

\* no byte-by-byte execution has begun
NoRun == [pc |-> "idle"]

Init ==
    /\ phase = "new"
    /\ verifier = ZeroVerify
    /\ nopts = 0
    /\ opt = NoOpt
    /\ before = ZeroVerify
    /\ zeroOnly = TRUE
    /\ newErr = NilErr
    /\ json = <<>>
    /\ ok = FALSE
    /\ err = NilErr
    /\ unit = NoCall
    /\ run = NoRun

\* one turn of New's loop: err := setter(v); if err != nil, return Verify{}, err
ApplyOption(name, l, r) ==
    /\ phase = "new"
    /\ nopts < MaxOpts
    /\ opt' = [name |-> name, l |-> l]
    /\ before' = verifier
    /\ nopts' = nopts + 1
    /\ zeroOnly' = (zeroOnly /\ l = 0)
    /\ IF r.err.nil
       THEN /\ verifier' = r.verifier
            /\ phase' = "new"
            /\ newErr' = NilErr
       ELSE /\ verifier' = ZeroVerify
            /\ phase' = "failed"
            /\ newErr' = r.err
    /\ UNCHANGED <<json, ok, err, unit, run>>

SetMaxArrayElementCount ==
    \E l \in LimitInputs :
        ApplyOption("WithMaxArrayElementCount", l, WithMaxArrayElementCount(l, verifier))

SetMaxContainerDepth ==
    \E l \in LimitInputs :
        ApplyOption("WithMaxContainerDepth", l, WithMaxContainerDepth(l, verifier))

SetMaxObjectKeyLength ==
    \E l \in LimitInputs :
        ApplyOption("WithMaxObjectKeyLength", l, WithMaxObjectKeyLength(l, verifier))

SetMaxStringLength ==
    \E l \in LimitInputs :
        ApplyOption("WithMaxStringLength", l, WithMaxStringLength(l, verifier))

SetMaxObjectEntryCount ==
    \E l \in LimitInputs :
        ApplyOption("WithMaxObjectEntryCount", l, WithMaxObjectEntryCount(l, verifier))

\* the loop is over: return *v, nil
NewReturn ==
    /\ phase = "new"
    /\ phase' = "ready"
    /\ opt' = NoOpt
    /\ before' = ZeroVerify
    /\ UNCHANGED <<verifier, nopts, zeroOnly, newErr, json, ok, err, unit, run>>

\* a call on the verifier New returned.  The receiver is a value and a call
\* keeps no state, so one call per run shows every result
Verified(data, r) ==
    /\ phase' = "verified"
    /\ json' = data
    /\ ok' = r.ok
    /\ err' = r.err
    /\ UNCHANGED <<verifier, nopts, opt, before, zeroOnly, newErr, unit, run>>

CallVerifyBytes ==
    /\ phase = "ready"
    /\ \E data \in Inputs : Verified(data, VerifyBytes(verifier, data))

CallVerifyString ==
    /\ phase = "ready"
    /\ \E data \in Scalars : Verified(data, VerifyString(verifier, data))

CallVerifyBytesAny ==
    /\ phase = "ready"
    /\ \E data \in AllBuffers : Verified(data, VerifyBytes(verifier, data))

Next ==
    \/ SetMaxArrayElementCount
    \/ SetMaxContainerDepth
    \/ SetMaxObjectKeyLength
    \/ SetMaxStringLength
    \/ SetMaxObjectEntryCount
    \/ NewReturn
    \/ CallVerifyBytes
    \/ CallVerifyString

Spec == Init /\ [][Next]_vars

\* the same program, given every short buffer instead of the documents
\* it starts when New has returned: with no option, or with one limit of 1
OneLimit ==
    {ZeroVerify,
     WithMaxArrayElementCount(1, ZeroVerify).verifier,
     WithMaxContainerDepth(1, ZeroVerify).verifier,
     WithMaxObjectKeyLength(1, ZeroVerify).verifier,
     WithMaxStringLength(1, ZeroVerify).verifier,
     WithMaxObjectEntryCount(1, ZeroVerify).verifier}

InitAny ==
    /\ phase = "ready"
    /\ verifier \in OneLimit
    /\ nopts = 0
    /\ opt = NoOpt
    /\ before = ZeroVerify
    /\ zeroOnly = (verifier = ZeroVerify)
    /\ newErr = NilErr
    /\ json = <<>>
    /\ ok = FALSE
    /\ err = NilErr
    /\ unit = NoCall
    /\ run = NoRun

NextAny == CallVerifyBytesAny

SpecAny == InitAny /\ [][NextAny]_vars

---------------------------------------------------------------------------
(* The functions of the package called by themselves, with the arguments   *)
(* their callers give them: validany where a value is expected, the number *)
(* and string scanners one past the byte validany dispatched on, the       *)
(* container validators one past the opening bracket with the depth        *)
(* already incremented.                                                    *)

\* the beginnings of the three literals, complete or not
LiteralHeads ==
    UNION {{SubSeq(w, 1, n) : n \in 1..Len(w)} : w \in {TextNull, TextTrue, TextFalse}}

\* what follows a literal
LiteralTails == {<<>>, <<SPACE>>, <<COMMA>>, <<49>>, <<LowerE>>, <<RBRACKET>>,
                 <<SPACE, 49>>, TextTrue}

LiteralBuffers ==
    {lead \o h \o t : lead \in {<<>>, <<SPACE>>, <<LF, TAB>>},
                      h \in LiteralHeads, t \in LiteralTails}

\* the call returned
Direct(fn, data, i, d, res) ==
    /\ phase' = "called"
    /\ json' = data
    /\ unit' = [fn |-> fn, i |-> i, depth |-> d, res |-> res]
    /\ UNCHANGED <<verifier, nopts, opt, before, zeroOnly, newErr, ok, err, run>>

\* validany(data, i, &depth, &v), as isValidJSON, isValidArray and
\* isValidObject call it: at any index up to len(data), with a depth the
\* limit allows
CallValidany ==
    /\ phase = "ready"
    /\ \E data \in LiteralBuffers \cup Inner :
         \E i \in 0..Len(data) :
           \E d \in {n \in 0..1 : ~DepthExceeded(verifier, n)} :
             Direct("validany", data, i, d, validany(data, i, d, verifier))

\* the bytes a number is written with, and a byte that ends it
NumberAlphabet == {MINUS, ZERO, 49, DOT, LowerE, UpperE, PLUS, SPACE}

\* every buffer of these bytes that begins as validany requires of a number
NumberBuffers ==
    {b \in Tuples(NumberAlphabet, MaxLen + 1) :
        Len(b) > 0 /\ (b[1] = MINUS \/ IsDigit(b[1]))}

\* isValidNumber(data, i+1), as validany calls it when data[i] is '-' or a
\* digit
CallIsValidNumber ==
    /\ phase = "ready"
    /\ \E data \in NumberBuffers :
         Direct("isValidNumber", data, 1, 0, isValidNumber(data, 1))

\* the pieces string contents are put together from: plain and multi-byte
\* characters, control bytes, good and bad escapes, \u with four, three
\* and no hexadecimal digits and with a byte that is none, a backslash by
\* itself, and the quote
StringPieces ==
    {<<LowerA>>, CharE9, <<TAB>>, <<31>>, <<QUOTE>>, <<BACKSLASH>>,
     <<BACKSLASH, QUOTE>>, <<BACKSLASH, BACKSLASH>>, <<BACKSLASH, LowerN>>,
     <<BACKSLASH, LowerA>>, <<BACKSLASH, LowerU>>,
     <<BACKSLASH, LowerU, ZERO, UpperF, LowerE, NINE>>,
     <<BACKSLASH, LowerU, ZERO, ZERO, LowerE>>,
     <<BACKSLASH, LowerU, ZERO, 103, ZERO, ZERO>>}

RECURSIVE Flatten(_, _)
Flatten(parts, k) ==
    IF k > Len(parts) THEN <<>> ELSE parts[k] \o Flatten(parts, k + 1)

\* an opening quote and up to MaxLen pieces; then the same escape and the
\* same \u digit with every printable byte in turn
StringBuffers ==
    {<<QUOTE>> \o Flatten(t, 1) : t \in Tuples(StringPieces, MaxLen)}
    \cup {<<QUOTE, BACKSLASH, c, QUOTE>> : c \in 32..126}
    \cup {<<QUOTE, BACKSLASH, LowerU, c, c, c, c, QUOTE>> : c \in 32..126}

\* isValidateString(data, i+1), as validany and isValidObject call it when
\* data[i] is the opening quote
CallIsValidateString ==
    /\ phase = "ready"
    /\ \E data \in StringBuffers :
         Direct("isValidateString", data, 1, 0, isValidateString(data, 1))

\* arrays and objects of up to two elements, whole and cut short
UnitContainers ==
    LET whole == {ArrayText(e, <<COMMA>>) : e \in Tuples(Pool, 2)}
                 \cup {ObjectText(e, <<COMMA>>) : e \in Tuples(Pool, 2)}
                 \cup {ArrayText(<<x>>, <<>>) : x \in {ArrayText(<<>>, <<>>),
                                                      ObjectText(<<>>, <<>>)}}
    IN  UNION {{SubSeq(d, 1, n) : n \in 1..Len(d)} : d \in whole}

\* the depth a container validator is called with: validany passed its own
\* depth test and incremented the counter
CalleeDepths(v) == {n + 1 : n \in {k \in 0..1 : ~DepthExceeded(v, k)}}

\* isValidArray(data, i+1, depth, verifier), as validany calls it when
\* data[i] is '['
CallIsValidArray ==
    /\ phase = "ready"
    /\ \E data \in {d \in UnitContainers : d[1] = LBRACKET} :
         \E d \in CalleeDepths(verifier) :
           Direct("isValidArray", data, 1, d, isValidArray(data, 1, d, verifier))

\* isValidObject(data, i+1, depth, verifier), as validany calls it when
\* data[i] is '{'
CallIsValidObject ==
    /\ phase = "ready"
    /\ \E data \in {d \in UnitContainers : d[1] = LBRACE} :
         \E d \in CalleeDepths(verifier) :
           Direct("isValidObject", data, 1, d, isValidObject(data, 1, d, verifier))

NextUnit ==
    \/ CallValidany
    \/ CallIsValidNumber
    \/ CallIsValidateString
    \/ CallIsValidArray
    \/ CallIsValidObject

SpecUnit == InitAny /\ [][NextUnit]_vars

---------------------------------------------------------------------------
(* VerifyBytes executed step by step.  A step is one turn of a loop or one *)
(* straight piece of a function, and it reads the buffer only through     *)
(* Byte, which tells whether the index is one Go allows.  run.stack holds  *)
(* the calls that wait for validany to return: isValidJSON at the bottom,  *)
(* above it the isValidArray and isValidObject calls that have not         *)
(* returned, each with its counter (child or entries).  run.i, run.ok and  *)
(* run.err are i, ok and err of the function that is executing; run.depth  *)
(* is *depth.  run.opened and run.closed count the opening brackets        *)
(* entered and the closing brackets consumed.                              *)

\* data[k] is inside the buffer
InRange(k) == 0 <= k /\ k < Len(json)

\* data[lo:hi] is a slice Go allows
SliceOK(lo, hi) == 0 <= lo /\ lo <= hi /\ hi <= Len(json)

Frame(kind) == [kind |-> kind, n |-> 0]

Push(r, kind) == [r EXCEPT !.stack = Append(@, Frame(kind))]

Pop(r) == [r EXCEPT !.stack = SubSeq(@, 1, Len(@) - 1)]

Top(r) == r.stack[Len(r.stack)]

\* go on at pc with index k
Goto(r, pc, k) == [r EXCEPT !.pc = pc, !.i = k]

\* the runtime panics: index k is out of range
Panic(r, k) == [r EXCEPT !.pc = "panic", !.panic = TRUE, !.i = k]

\* validany (or the container validator it ends with) returns (k, b, e)
Return(r, k, b, e) == [r EXCEPT !.pc = "return", !.i = k, !.ok = b, !.err = e]

\* isValidArray or isValidObject returns: its call is over
Leave(r, k, b, e) == Return(Pop(r), k, b, e)

\* a closing bracket is consumed, and the counter is left as it is
CloseNoDecrement(r) ==
    Leave([r EXCEPT !.closed = @ + 1], r.i + 1, TRUE, r.err)

\* a closing bracket is consumed: *depth--; return i + 1, true, err
Close(r) ==
    Leave([r EXCEPT !.depth = @ - 1, !.closed = @ + 1], r.i + 1, TRUE, r.err)

\* isValidJSON returns (k, b, e) to VerifyBytes
Exit(r, k, b, e) ==
    [r EXCEPT !.pc = "exit", !.i = k, !.ok = b, !.err = e, !.stack = <<>>]

\* one step of the execution
Step(pc, r) ==
    /\ phase = "running"
    /\ run.pc = pc
    /\ run' = r
    /\ UNCHANGED <<phase, verifier, nopts, opt, before, zeroOnly, newErr, json,
                   ok, err, unit>>

\* the buffers of the step-by-step executions: the documents, and buffers
\* that end where a scanner is about to read on
Endings ==
    {<<MINUS>>, <<BACKSLASH>>, <<BACKSLASH, LowerU>>,
     <<BACKSLASH, LowerU, ZERO, ZERO>>, <<LowerT>>, <<LowerF>>, <<LowerN>>,
     <<COMMA>>, <<COLON>>, <<49, DOT>>, <<49, LowerE>>, <<49, LowerE, PLUS>>,
     <<QUOTE>>, <<LBRACKET>>, <<LBRACE>>}

Beginnings ==
    {<<>>, <<LBRACKET>>, <<LBRACE>>, <<QUOTE, LowerA>>, <<LBRACKET, 49>>,
     <<LBRACKET, 49, COMMA>>, <<LBRACE, QUOTE, 107, QUOTE>>,
     <<LBRACE, QUOTE, 107, QUOTE, COLON>>,
     <<LBRACE, QUOTE, 107, QUOTE, COLON, 49>>,
     <<LBRACE, QUOTE, 107, QUOTE, COLON, 49, COMMA>>, <<LBRACE, QUOTE>>}

Adversarial == {b \o e : b \in Beginnings, e \in Endings}

StepInputs == Inputs \cup Adversarial

\* VerifyBytes(json) is entered: var depth int; isValidJSON(json, 0, ...)
EnterVerifyBytes ==
    /\ phase = "ready"
    /\ \E data \in StepInputs :
         /\ json' = data
         /\ run' = [pc |-> "json", i |-> 0, depth |-> 0,
                    stack |-> <<Frame("json")>>, ok |-> FALSE, err |-> NilErr,
                    start |-> 0, key |-> FALSE, j |-> 0, opened |-> 0,
                    closed |-> 0, panic |-> FALSE]
    /\ phase' = "running"
    /\ UNCHANGED <<verifier, nopts, opt, before, zeroOnly, newErr, ok, err, unit>>

\* the first loop of isValidJSON
JsonLoop ==
    Step("json",
         IF run.i >= Len(json) THEN Exit(run, run.i, FALSE, run.err)
         ELSE IF ~InRange(run.i) THEN Panic(run, run.i)
         ELSE IF IsWS(At(json, run.i)) THEN Goto(run, "json", run.i + 1)
         ELSE Goto(run, "any_check", run.i))

\* validany is entered: its results are zero, and the depth is tested
AnyCheck ==
    Step("any_check",
         IF DepthExceeded(verifier, run.depth)
         THEN Return(run, run.i, FALSE, DepthError(verifier, run.depth))
         ELSE [run EXCEPT !.pc = "any", !.ok = FALSE, !.err = NilErr])

\* a literal scanner called by validany with k = i + 1: it reads data[k] to
\* data[k+n-1], and only when k + n <= len(data)
LiteralPanics(k, n) == k + n <= Len(json) /\ ~SliceOK(k, k + n)

Literal(r, k, n, s) ==
    IF LiteralPanics(k, n) THEN Panic(r, k) ELSE Return(r, s.outi, s.ok, r.err)

\* one turn of the loop of validany
AnyLoop ==
    Step("any",
         IF run.i >= Len(json) THEN Return(run, run.i, FALSE, run.err)
         ELSE IF ~InRange(run.i) THEN Panic(run, run.i)
         ELSE LET b == At(json, run.i) IN
              IF IsWS(b) THEN Goto(run, "any", run.i + 1)
              ELSE IF b = LBRACE
                   THEN Goto(Push([run EXCEPT !.depth = @ + 1, !.opened = @ + 1],
                                  "obj"), "obj_check", run.i + 1)
              ELSE IF b = LBRACKET
                   THEN Goto(Push([run EXCEPT !.depth = @ + 1, !.opened = @ + 1],
                                  "arr"), "arr_check", run.i + 1)
              ELSE IF b = QUOTE
                   THEN [run EXCEPT !.pc = "str", !.i = run.i + 1,
                                    !.start = run.i, !.key = FALSE]
              ELSE IF b = MINUS \/ IsDigit(b) THEN Goto(run, "num", run.i + 1)
              ELSE IF b = LowerT
                   THEN Literal(run, run.i + 1, 3, isValidTrue(json, run.i + 1))
              ELSE IF b = LowerF
                   THEN \* outi, ok = isValidFalse(data, i+1) and no return
                        IF LiteralPanics(run.i + 1, 4) THEN Panic(run, run.i + 1)
                        ELSE [run EXCEPT !.i = run.i + 1,
                                         !.ok = isValidFalse(json, run.i + 1).ok]
              ELSE IF b = LowerN
                   THEN Literal(run, run.i + 1, 3, isValidNull(json, run.i + 1))
              ELSE Return(run, run.i, FALSE, run.err))

\* validany has returned to the call on top of the stack
ReturnToCaller ==
    Step("return",
         LET f == Top(run) IN
         IF f.kind = "json"
         THEN \* if !ok || err != nil { return i, false, err }
              IF ~run.ok \/ ~run.err.nil
              THEN Exit(run, run.i, FALSE, run.err)
              ELSE Goto(run, "trail", run.i)
         ELSE IF f.kind = "arr"
         THEN \* if ...; !ok { return i, false, err }
              IF ~run.ok THEN Leave(run, run.i, FALSE, run.err)
              ELSE Goto(run, "arr_comma", run.i)
         ELSE \* if ...; !ok || err != nil { return i, false, err }
              IF ~run.ok \/ ~run.err.nil THEN Leave(run, run.i, FALSE, run.err)
              ELSE Goto(run, "obj_comma", run.i))

\* the second loop of isValidJSON
TrailLoop ==
    Step("trail",
         IF run.i >= Len(json) THEN Exit(run, run.i, TRUE, run.err)
         ELSE IF ~InRange(run.i) THEN Panic(run, run.i)
         ELSE IF IsWS(At(json, run.i)) THEN Goto(run, "trail", run.i + 1)
         ELSE Exit(run, run.i, FALSE, run.err))

\* VerifyBytes returns: if err == nil && ok == false { err = ErrInvalidJSON }
ReturnVerifyBytes ==
    /\ phase = "running"
    /\ run.pc = "exit"
    /\ phase' = "verified"
    /\ ok' = run.ok
    /\ err' = IF run.err.nil /\ run.ok = FALSE THEN ErrInvalidJSON ELSE run.err
    /\ run' = [run EXCEPT !.pc = "done"]
    /\ UNCHANGED <<verifier, nopts, opt, before, zeroOnly, newErr, json, unit>>

\* isValidateString returns (k, b): to validany's string case, or to
\* isValidObject behind the label key
StringReturn(r, k, b) ==
    [r EXCEPT !.pc = IF r.key THEN "obj_key" ELSE "str_value", !.i = k, !.ok = b]

\* one turn of the loop of isValidateString
StringLoop ==
    Step("str",
         IF run.i >= Len(json) THEN StringReturn(run, run.i, FALSE)
         ELSE IF ~InRange(run.i) THEN Panic(run, run.i)
         ELSE LET b == At(json, run.i) IN
              IF b < SPACE THEN StringReturn(run, run.i, FALSE)
              ELSE IF b = BACKSLASH
                   THEN IF run.i + 1 = Len(json)
                        THEN StringReturn(run, run.i + 1, FALSE)
                        ELSE Goto(run, "str_esc", run.i + 1)
              ELSE IF b = QUOTE THEN StringReturn(run, run.i + 1, TRUE)
              ELSE Goto(run, "str", run.i + 1))

\* switch data[i] on the byte after a backslash
StringEscape ==
    Step("str_esc",
         IF ~InRange(run.i) THEN Panic(run, run.i)
         ELSE LET b == At(json, run.i) IN
              IF b \in {QUOTE, BACKSLASH, SLASH, LowerB, LowerF, LowerN, LowerR,
                        LowerT}
              THEN Goto(run, "str", run.i + 1)
              ELSE IF b = LowerU THEN [run EXCEPT !.pc = "str_hex", !.j = 0]
              ELSE StringReturn(run, run.i, FALSE))

\* one turn of the loop over j
StringHex ==
    Step("str_hex",
         IF run.j >= 4 THEN Goto(run, "str", run.i + 1)
         ELSE LET k == run.i + 1 IN
              IF k >= Len(json) THEN StringReturn(run, k, FALSE)
              ELSE IF ~InRange(k) THEN Panic(run, k)
              ELSE IF ~IsHex(At(json, k)) THEN StringReturn(run, k, FALSE)
              ELSE [run EXCEPT !.i = k, !.j = @ + 1])

\* validany's string case after the scan: err = validateStringLength(data,
\* i, outi, ...); return
StringValue ==
    Step("str_value",
         IF ~SliceOK(run.start, run.i) THEN Panic(run, run.i)
         ELSE Return(run, run.i, run.ok,
                     validateStringLength(json, run.start, run.i,
                                          verifier.stringLenEnabled,
                                          verifier.StringValueLen,
                                          stringValueLength)))

\* isValidNumber returns (k, b) and validany returns it
NumberEnd(r, k, b) == Return(r, k, b, r.err)

\* isValidNumber from i-- to the integer part, without if i == len(data)
NumberSignNoLengthTest ==
    Step("num",
         LET k == run.i - 1 IN
         IF ~InRange(k) THEN Panic(run, k)
         ELSE LET k1 == IF At(json, k) = MINUS THEN k + 1 ELSE k IN
              IF ~InRange(k1) THEN Panic(run, k1)
              ELSE IF At(json, k1) = ZERO THEN Goto(run, "num_frac", k1 + 1)
              ELSE Goto(run, "num_int", k1))

\* isValidNumber from i-- to the integer part
NumberSign ==
    Step("num",
         LET k == run.i - 1 IN
         IF ~InRange(k) THEN Panic(run, k)
         ELSE LET k1 == IF At(json, k) = MINUS THEN k + 1 ELSE k IN
              IF k1 = Len(json) THEN NumberEnd(run, k1, FALSE)
              ELSE IF ~InRange(k1) THEN Panic(run, k1)
              ELSE IF At(json, k1) = ZERO THEN Goto(run, "num_frac", k1 + 1)
              ELSE Goto(run, "num_int", k1))

\* one turn of a loop over digits, which goes on at pc when it ends
Digits(pc) ==
    IF run.i >= Len(json) THEN Goto(run, pc, run.i)
    ELSE IF ~InRange(run.i) THEN Panic(run, run.i)
    ELSE IF IsDigit(At(json, run.i)) THEN Goto(run, run.pc, run.i + 1)
    ELSE Goto(run, pc, run.i)

NumberInt == Step("num_int", Digits("num_frac"))

\* isValidNumber from the comment frac on
NumberFraction ==
    Step("num_frac",
         IF run.i = Len(json) THEN NumberEnd(run, run.i, TRUE)
         ELSE IF ~InRange(run.i) THEN Panic(run, run.i)
         ELSE IF At(json, run.i) # DOT THEN Goto(run, "num_exp", run.i)
         ELSE LET k == run.i + 1 IN
              IF k = Len(json) THEN NumberEnd(run, k, FALSE)
              ELSE IF ~InRange(k) THEN Panic(run, k)
              ELSE IF ~IsDigit(At(json, k)) THEN NumberEnd(run, k, FALSE)
              ELSE Goto(run, "num_fracdigits", k + 1))

NumberFractionDigits == Step("num_fracdigits", Digits("num_exp"))

\* isValidNumber from the comment exp on
NumberExponent ==
    Step("num_exp",
         IF run.i = Len(json) THEN NumberEnd(run, run.i, TRUE)
         ELSE IF ~InRange(run.i) THEN Panic(run, run.i)
         ELSE IF At(json, run.i) \notin {LowerE, UpperE}
              THEN NumberEnd(run, run.i, TRUE)
         ELSE LET k == run.i + 1 IN
              IF k = Len(json) THEN NumberEnd(run, k, FALSE)
              ELSE IF ~InRange(k) THEN Panic(run, k)
              ELSE LET k2 == IF At(json, k) \in {PLUS, MINUS} THEN k + 1 ELSE k IN
                   IF k2 = Len(json) THEN NumberEnd(run, k2, FALSE)
                   ELSE IF ~InRange(k2) THEN Panic(run, k2)
                   ELSE IF ~IsDigit(At(json, k2)) THEN NumberEnd(run, k2, FALSE)
                   ELSE Goto(run, "num_expdigits", k2 + 1))

NumberExponentDigits == Step("num_expdigits", Digits("num_end"))

\* return i, true
NumberReturn == Step("num_end", NumberEnd(run, run.i, TRUE))

\* the counter of the call on top of the stack (child, entries) becomes n
Count(r, n) == [r EXCEPT !.stack[Len(r.stack)].n = n]

\* isValidArray is entered: the depth is tested
ArrCheck ==
    Step("arr_check",
         IF DepthExceeded(verifier, run.depth)
         THEN Leave(run, run.i, FALSE, DepthError(verifier, run.depth))
         ELSE Goto(run, "arr", run.i))

\* one turn of the outer loop of isValidArray
ArrLoop ==
    Step("arr",
         IF run.i >= Len(json) THEN Leave(run, run.i, FALSE, run.err)
         ELSE IF ~InRange(run.i) THEN Panic(run, run.i)
         ELSE LET b == At(json, run.i) IN
              IF IsWS(b) THEN Goto(run, "arr", run.i + 1)
              ELSE IF b = RBRACKET THEN Close(run)
              ELSE Goto(Count(run, 0), "arr_elem", run.i))

\* the head of the inner loop of isValidArray: when it ends the outer loop
\* adds one to i and ends too
ArrElem ==
    Step("arr_elem",
         IF run.i >= Len(json) THEN Leave(run, run.i + 1, FALSE, run.err)
         ELSE Goto(run, "any_check", run.i))

\* one turn of the loop of isValidComma(data, i, ']')
ArrComma ==
    Step("arr_comma",
         IF run.i >= Len(json) THEN Leave(run, run.i, FALSE, run.err)
         ELSE IF ~InRange(run.i) THEN Panic(run, run.i)
         ELSE LET b == At(json, run.i) IN
              IF IsWS(b) THEN Goto(run, "arr_comma", run.i + 1)
              ELSE IF b = COMMA \/ b = RBRACKET THEN Goto(run, "arr_count", run.i)
              ELSE Leave(run, run.i, FALSE, run.err))

\* child++, the test of the element count, and if data[i] == ']'
ArrCount ==
    Step("arr_count",
         LET child == Top(run).n + 1 IN
         IF verifier.arrayEntryCountEnabled
            /\ child > verifier.MaxArrayElementCount
         THEN Leave(run, run.i, FALSE, ArrayCountError(verifier, child))
         ELSE IF ~InRange(run.i) THEN Panic(run, run.i)
         ELSE IF At(json, run.i) = RBRACKET THEN Close(run)
         ELSE Goto(Count(run, child), "arr_elem", run.i + 1))

\* isValidObject is entered: the depth is tested
ObjCheck ==
    Step("obj_check",
         IF DepthExceeded(verifier, run.depth)
         THEN Leave(run, run.i, FALSE, DepthError(verifier, run.depth))
         ELSE Goto(run, "obj", run.i))

\* the label key: tempI := i; i, ok = isValidateString(data, i+1)
Key(r) == [r EXCEPT !.pc = "str", !.start = r.i, !.key = TRUE, !.i = r.i + 1]

\* one turn of the outer loop of isValidObject
ObjLoop ==
    Step("obj",
         IF run.i >= Len(json) THEN Leave(run, run.i, FALSE, run.err)
         ELSE IF ~InRange(run.i) THEN Panic(run, run.i)
         ELSE LET b == At(json, run.i) IN
              IF IsWS(b) THEN Goto(run, "obj", run.i + 1)
              ELSE IF b = RBRACE THEN Close(run)
              ELSE IF b = QUOTE THEN Key(Count(run, 0))
              ELSE Leave(run, run.i, FALSE, run.err))

\* the key is scanned: entries++, the test of the entry count, the test of
\* the key length
ObjKey ==
    Step("obj_key",
         LET entries == Top(run).n + 1 IN
         IF ~run.ok THEN Leave(run, run.i, FALSE, run.err)
         ELSE IF verifier.objectEntryCountEnabled
                 /\ verifier.ObjectEntryCount < entries
              THEN Leave(run, run.i, FALSE, EntryCountError(verifier, entries))
         ELSE IF ~SliceOK(run.start, run.i) THEN Panic(run, run.i)
         ELSE LET k == validateStringLength(json, run.start, run.i,
                                            verifier.objectKeyLengthEnabled,
                                            verifier.ObjectKeyLength,
                                            objectKeyValueLength) IN
              IF ~k.nil THEN Leave(run, run.i, FALSE, k)
              ELSE Goto(Count([run EXCEPT !.err = k], entries), "colon", run.i))

\* one turn of the loop of isValidColon
ObjColon ==
    Step("colon",
         IF run.i >= Len(json) THEN Leave(run, run.i, FALSE, run.err)
         ELSE IF ~InRange(run.i) THEN Panic(run, run.i)
         ELSE LET b == At(json, run.i) IN
              IF IsWS(b) THEN Goto(run, "colon", run.i + 1)
              ELSE IF b = COLON THEN Goto(run, "any_check", run.i + 1)
              ELSE Leave(run, run.i, FALSE, run.err))

\* one turn of the loop of isValidComma(data, i, '}')
ObjComma ==
    Step("obj_comma",
         IF run.i >= Len(json) THEN Leave(run, run.i, FALSE, run.err)
         ELSE IF ~InRange(run.i) THEN Panic(run, run.i)
         ELSE LET b == At(json, run.i) IN
              IF IsWS(b) THEN Goto(run, "obj_comma", run.i + 1)
              ELSE IF b = COMMA \/ b = RBRACE THEN Goto(run, "obj_close", run.i)
              ELSE Leave(run, run.i, FALSE, run.err))

\* if data[i] == '}' after the member, else i++
ObjClose ==
    Step("obj_close",
         IF ~InRange(run.i) THEN Panic(run, run.i)
         ELSE IF At(json, run.i) = RBRACE THEN Close(run)
         ELSE Goto(run, "obj_next", run.i + 1))

\* one turn of the loop that looks for the next key
ObjNext ==
    Step("obj_next",
         IF run.i >= Len(json) THEN Leave(run, run.i, FALSE, run.err)
         ELSE IF ~InRange(run.i) THEN Panic(run, run.i)
         ELSE LET b == At(json, run.i) IN
              IF IsWS(b) THEN Goto(run, "obj_next", run.i + 1)
              ELSE IF b = QUOTE THEN Key(run)
              ELSE Leave(run, run.i, FALSE, run.err))

NextStep ==
    \/ EnterVerifyBytes
    \/ JsonLoop
    \/ AnyCheck
    \/ AnyLoop
    \/ ReturnToCaller
    \/ TrailLoop
    \/ ReturnVerifyBytes
    \/ StringLoop
    \/ StringEscape
    \/ StringHex
    \/ StringValue
    \/ NumberSign
    \/ NumberInt
    \/ NumberFraction
    \/ NumberFractionDigits
    \/ NumberExponent
    \/ NumberExponentDigits
    \/ NumberReturn
    \/ ArrCheck
    \/ ArrLoop
    \/ ArrElem
    \/ ArrComma
    \/ ArrCount
    \/ ObjCheck
    \/ ObjLoop
    \/ ObjKey
    \/ ObjColon
    \/ ObjComma
    \/ ObjClose
    \/ ObjNext

SpecStep == InitAny /\ [][NextStep]_vars

\* a call that has begun goes on until it returns or panics
SpecStepFair == SpecStep /\ WF_vars(NextStep)

---------------------------------------------------------------------------
(* What the claims are stated with.                                        *)
Called == phase = "verified"

\* the checks that are enabled
EnabledChecks(v) ==
    {c \in {"array", "depth", "entry", "key", "string"} :
        \/ c = "array" /\ v.arrayEntryCountEnabled
        \/ c = "depth" /\ v.jsonContainerDepthEnabled
        \/ c = "entry" /\ v.objectEntryCountEnabled
        \/ c = "key" /\ v.objectKeyLengthEnabled
        \/ c = "string" /\ v.stringLenEnabled}

\* every enabled limit is at least the measure it bounds
WithinLimits(m, v) ==
    /\ v.arrayEntryCountEnabled => SeqMax(m.arrs) <= v.MaxArrayElementCount
    /\ v.jsonContainerDepthEnabled => m.depth <= v.JSONContainerDepth
    /\ v.objectEntryCountEnabled => SeqMax(m.objs) <= v.ObjectEntryCount
    /\ v.objectKeyLengthEnabled => SeqMax(m.keys) <= v.ObjectKeyLength
    /\ v.stringLenEnabled => SeqMax(m.strs) <= v.StringValueLen

\* e is the limit error with this label and maximum, whatever it found
IsLimitError(e, label, max, data) ==
    /\ ~e.nil
    /\ e # ErrInvalidJSON
    /\ \E n \in 0..Len(data) : e = LimitError(label, max, n)

\* the places of s whose number exceeds max
Over(s, max) == {k \in 1..Len(s) : s[k] > max}

FirstOver(s, max) == CHOOSE k \in Over(s, max) : \A j \in Over(s, max) : k <= j

\* the text holds no byte f: the literal false plays no part
NoFalse(data) == \A k \in 1..Len(data) : data[k] # LowerF

Succeeded == ok /\ err.nil

---------------------------------------------------------------------------
\* C1: every buffer that is whitespace, one valid JSON value, whitespace,
\* under a configuration whose every limit is disabled or not exceeded by
\* the value, makes VerifyBytes return (true, nil).
C1_Completeness ==
    (Called /\ IsJSONText(json) /\ WithinLimits(Measure(json), verifier))
        => Succeeded

\* C2: with all limits disabled, VerifyBytes returns (true, nil) only for a
\* buffer that is whitespace, one value of the JSON grammar, whitespace;
\* every other buffer gets (false, ErrInvalidJSON).
C2_GrammarSoundness ==
    (Called /\ verifier = ZeroVerify /\ ~IsJSONText(json))
        => (~ok /\ err = ErrInvalidJSON)

\* C3: with only the string-length check enabled at M, a valid document with
\* a string value of more than M characters, wherever it stands, is rejected
\* with the string-length error of the first such string in the order of the
\* text; a document whose string values all have at most M characters is not
\* rejected by this check.  Stated for the documents without the literal
\* false, which validany mishandles on its own account (C11).
C3_StringLimitEverywhere ==
    (Called /\ EnabledChecks(verifier) = {"string"} /\ IsJSONText(json)
       /\ NoFalse(json))
        => LET m == Measure(json)
               max == verifier.StringValueLen
           IN  IF Over(m.strs, max) = {}
               THEN ~IsLimitError(err, stringValueLength, max, json)
               ELSE /\ ~ok
                    /\ err = LimitError(stringValueLength, max,
                                        m.strs[FirstOver(m.strs, max)])

\* C4: VerifyBytes and VerifyString return (true, nil) or (false, err) with
\* err non-nil, never true with an error and never false without one.
C4_ResultShape ==
    Called => \/ (ok /\ err.nil)
              \/ (~ok /\ ~err.nil)

\* a call that failed on a limit found inside an array, whose validator
\* hands the error up together with ok = true
C4_Witness ==
    /\ Called
    /\ json = ArrayText(<<TextOne, Quoted(Rep(LowerA, MaxLimit + 1))>>, <<COMMA>>)
    /\ ~ok
    /\ IsLimitError(err, stringValueLength, verifier.StringValueLen, json)

\* C5: a truncated or bracket-mismatched buffer gets (false, ErrInvalidJSON)
\* when no enabled limit is exceeded before the grammar error, and (false,
\* the limit's error) when a limit violation comes first.  Stated for the
\* two plainest cases: no check enabled at all; and only the string-length
\* check enabled, the buffer a document cut after a complete string value
\* of more than the maximum (again without the literal false).
C5_FailFastPrecedence ==
    (Called /\ ~IsJSONText(json) /\ json \in Truncated \cup Mismatched
       /\ NoFalse(json))
        => /\ verifier = ZeroVerify => (~ok /\ err = ErrInvalidJSON)
           /\ EnabledChecks(verifier) = {"string"} =>
                \A d \in Breakable :
                    LET m == Measure(d)
                        max == verifier.StringValueLen
                        k == FirstOver(m.strs, max)
                    IN  (/\ Len(json) < Len(d)
                         /\ json = SubSeq(d, 1, Len(json))
                         /\ Over(m.strs, max) # {}
                         /\ m.strEnd[k] <= Len(json))
                        => (~ok /\ err = LimitError(stringValueLength, max,
                                                    m.strs[k]))

\* C6: with only the depth check enabled at D, a valid document that nests
\* to at most D levels is not rejected for depth, one that opens a container
\* at level D+1 is rejected with the depth error reporting Max = D and
\* Found = D+1, and no depth error ever reports another Found.
C6_DepthBoundary ==
    (Called /\ EnabledChecks(verifier) = {"depth"})
        => LET max == verifier.JSONContainerDepth IN
           /\ IsLimitError(err, "maxContainerDepthReached", max, json)
                => err = LimitError("maxContainerDepthReached", max, max + 1)
           /\ (IsJSONText(json) /\ Measure(json).depth <= max)
                => ~IsLimitError(err, "maxContainerDepthReached", max, json)
           /\ (IsJSONText(json) /\ Measure(json).depth > max)
                => (~ok /\ err = LimitError("maxContainerDepthReached", max,
                                            max + 1))

\* C7: with only the array element check enabled at N, a valid document
\* whose arrays have at most N elements each is not rejected by that check
\* and one with an array of more than N elements is rejected with the array
\* error reporting Found = N+1; the same for the object entry check and the
\* members of each object.  The counts are per container.
C7_CountBoundary ==
    /\ (Called /\ EnabledChecks(verifier) = {"array"} /\ IsJSONText(json))
         => LET max == verifier.MaxArrayElementCount IN
            IF Over(Measure(json).arrs, max) = {}
            THEN ~IsLimitError(err, "maxArrayElementCountReached", max, json)
            ELSE ~ok /\ err = LimitError("maxArrayElementCountReached", max,
                                         max + 1)
    /\ (Called /\ EnabledChecks(verifier) = {"entry"} /\ IsJSONText(json))
         => LET max == verifier.ObjectEntryCount IN
            IF Over(Measure(json).objs, max) = {}
            THEN ~IsLimitError(err, "maxObjectEntryCountReached", max, json)
            ELSE ~ok /\ err = LimitError("maxObjectEntryCountReached", max,
                                         max + 1)

\* C8: for keys and for string values the length that is compared with the
\* maximum and reported as Found is the number of characters between the
\* two quotes, a multi-byte UTF-8 character counting as one; a key or value
\* of exactly the maximum passes.  On valid documents: a length error
\* reports the length of one of the document's keys (string values) that
\* exceeds the maximum; and a lone string, or an object with one member, is
\* rejected with its own length exactly when that length exceeds the
\* maximum.
C8_LengthUnit ==
    Called
        => LET m == Measure(json)
               smax == verifier.StringValueLen
               kmax == verifier.ObjectKeyLength
           IN
           /\ (IsLimitError(err, stringValueLength, smax, json) /\ m.ok)
                => \E k \in Over(m.strs, smax) :
                      err = LimitError(stringValueLength, smax, m.strs[k])
           /\ (IsLimitError(err, objectKeyValueLength, kmax, json) /\ m.ok)
                => \E k \in Over(m.keys, kmax) :
                      err = LimitError(objectKeyValueLength, kmax, m.keys[k])
           /\ (EnabledChecks(verifier) = {"string"} /\ m.ok /\ m.depth = 0
                 /\ Len(m.strs) = 1)
                => IF m.strs[1] > smax
                   THEN ~ok /\ err = LimitError(stringValueLength, smax, m.strs[1])
                   ELSE Succeeded
           /\ (EnabledChecks(verifier) = {"key"} /\ m.ok /\ m.depth = 1
                 /\ m.objs = <<1>>)
                => IF m.keys[1] > kmax
                   THEN ~ok /\ err = LimitError(objectKeyValueLength, kmax,
                                                m.keys[1])
                   ELSE ~IsLimitError(err, objectKeyValueLength, kmax, json)

\* a key of two characters in five bytes, rejected at maximum 1 with Found 2
C8_Witness ==
    /\ Called
    /\ json = <<LBRACE>> \o Member(Quoted(Char4E16 \o CharE9), TextOne)
              \o <<RBRACE>>
    /\ verifier.objectKeyLengthEnabled
    /\ verifier.ObjectKeyLength = 1
    /\ err = LimitError(objectKeyValueLength, 1, 2)

\* C9: an option given the value 0 returns no error and leaves every
\* maximum and every enabled flag as it was; a verifier New built from
\* zero-valued options only has all five checks disabled.
C9_ZeroLeavesDisabled ==
    /\ (opt # NoOpt /\ opt.l = 0)
         => (phase = "new" /\ newErr.nil /\ verifier = before)
    /\ (phase \in {"ready", "verified"} /\ zeroOnly)
         => (EnabledChecks(verifier) = {} /\ verifier = ZeroVerify)

\* the value 0 given to an option after another option has set a limit
C9_Witness ==
    /\ opt # NoOpt
    /\ opt.l = 0
    /\ EnabledChecks(before) # {}
    /\ nopts = 2

\* the text of a limit error, with the numbers in decimal
MessageText(prefix, label, max, found) ==
    prefix \o label \o ".Max-[" \o ToString(max) \o "]-Allowed.Found-["
    \o ToString(found) \o "]"

Labels ==
    [array |-> "maxArrayElementCountReached", depth |-> "maxContainerDepthReached",
     entry |-> "maxObjectEntryCountReached", key |-> "maxKeyLengthReached",
     string |-> "maxStringValueLengthReached"]

MaxOf(v, c) ==
    CASE c = "array" -> v.MaxArrayElementCount
      [] c = "depth" -> v.JSONContainerDepth
      [] c = "entry" -> v.ObjectEntryCount
      [] c = "key" -> v.ObjectKeyLength
      [] c = "string" -> v.StringValueLen

\* the values a valid document with measures m lets check c report
Measured(m, c, max) ==
    CASE c = "array" -> IF Over(m.arrs, max) # {} THEN {max + 1} ELSE {}
      [] c = "depth" -> IF m.depth > max THEN {max + 1} ELSE {}
      [] c = "entry" -> IF Over(m.objs, max) # {} THEN {max + 1} ELSE {}
      [] c = "key" -> {m.keys[k] : k \in Over(m.keys, max)}
      [] c = "string" -> {m.strs[k] : k \in Over(m.strs, max)}

\* the texts the limit errors of a call may have: for every enabled check
\* the text with the configured maximum and a value above it (for a valid
\* document, a value the document has)
LimitTexts(prefix, v, data) ==
    LET m == Measure(data)
    IN  UNION {{MessageText(prefix, Labels[c], MaxOf(v, c), n) :
                    n \in IF m.ok THEN Measured(m, c, MaxOf(v, c))
                          ELSE (MaxOf(v, c) + 1)..Len(data)} :
                c \in EnabledChecks(v)}

\* the error of a call has the sentinel's text or a limit error's
ErrorTexts(prefix, v, data, e) ==
    \/ e.msg = prefix \o "MalformedJSON"
    \/ e.msg \in LimitTexts(prefix, v, data)

\* C10 as claimed: every limit error has the text
\* threat.<label>.Max-[<max>]-Allowed.Found-[<found>] and the sentinel the
\* text threat.MalformedJSON.
C10_ErrorTextThreat ==
    (Called /\ ~err.nil) => ErrorTexts("threat.", verifier, json, err)

\* C10 as amended: the texts begin with jtp., not threat.; the label is the
\* one of the limit violated, <max> the configured maximum and <found> the
\* measured value, both in decimal.
C10_ErrorTextJtp ==
    (Called /\ ~err.nil) => ErrorTexts("jtp.", verifier, json, err)

\* the long string rejected: a Found of two digits
C10_Witness ==
    /\ Called
    /\ json = Quoted(Rep(LowerA, LongChars))
    /\ verifier.stringLenEnabled
    /\ ~ok
    /\ err.msg = MessageText("jtp.", "maxStringValueLengthReached",
                             verifier.StringValueLen, LongChars)

---------------------------------------------------------------------------
(* C1, C6 and C7 fail on documents that hold the literal false, and on no  *)
(* other generated document.                                               *)
C1_WithoutFalse == NoFalse(json) => C1_Completeness

C6_WithoutFalse == NoFalse(json) => C6_DepthBoundary

C7_WithoutFalse == NoFalse(json) => C7_CountBoundary

---------------------------------------------------------------------------
\* what a call of fn by itself returned
Returned(fn) == phase = "called" /\ unit.fn = fn

\* the literal that begins with byte b
LiteralOf(b) ==
    CASE b = LowerT -> TextTrue
      [] b = LowerF -> TextFalse
      [] b = LowerN -> TextNull

\* C11: when the first significant byte of a value is t, f or n, validany
\* succeeds if and only if the bytes from there spell true, false or null,
\* and on success it returns the index just past the literal; the byte is
\* never stepped over to validate what follows it.
C11_LiteralDispatch ==
    Returned("validany")
        => LET k == GrammarWS(json, unit.i)
           IN  (k < Len(json) /\ At(json, k) \in {LowerT, LowerF, LowerN})
                 => LET word == LiteralOf(At(json, k))
                    IN  /\ unit.res.ok <=> IsAt(json, k, word)
                        /\ unit.res.ok => unit.res.outi = k + Len(word)

\* C11 on the literals true and null only
C11_TrueAndNull ==
    Returned("validany")
        => LET k == GrammarWS(json, unit.i)
           IN  (k < Len(json) /\ At(json, k) \in {LowerT, LowerN})
                 => LET word == LiteralOf(At(json, k))
                    IN  /\ unit.res.ok <=> IsAt(json, k, word)
                        /\ unit.res.ok => unit.res.outi = k + Len(word)

\* the bytes data[from .. to-1] are one number of the JSON grammar
IsNumberText(data, from, to) ==
    LET g == GrammarNumber(SubSeq(data, from + 1, to), 0)
    IN  g.ok /\ g.end = to - from

\* C12: isValidNumber returns success only when the bytes it consumed are
\* an optional '-', an integer part of at least one digit (a single 0, or a
\* non-zero digit and digits), an optional '.' with one or more digits and
\* an optional exponent with one or more digits; a '-' not followed by a
\* digit, a '.' without a digit after it and an exponent without a digit
\* fail.
C12_NumberGrammar ==
    Returned("isValidNumber")
        => LET from == unit.i - 1
               int == IF At(json, from) = MINUS THEN from + 1 ELSE from
           IN  /\ unit.res.ok => IsNumberText(json, from, unit.res.outi)
               /\ ~(int < Len(json) /\ IsDigit(At(json, int))) => ~unit.res.ok

\* C12 on the buffers whose integer part has a digit
C12_WithIntegerDigit ==
    (Returned("isValidNumber")
       /\ LET int == IF At(json, unit.i - 1) = MINUS THEN unit.i ELSE unit.i - 1
          IN  int < Len(json) /\ IsDigit(At(json, int)))
        => /\ C12_NumberGrammar
           /\ unit.res.ok
                 <=> LET g == GrammarNumber(json, unit.i - 1)
                     IN  g.ok /\ g.end = unit.res.outi

\* the bytes that may follow a backslash, other than u
EscapeBytes == {QUOTE, BACKSLASH, SLASH, 98, 102, 110, 114, 116}

HexBytes == (48..57) \cup (65..70) \cup (97..102)

\* where the string that begins just before index i ends: the index past
\* the first quote that is not part of an escape, when every byte before it
\* is 0x20 or more and every backslash begins an escape; NoToken otherwise
RECURSIVE StringEnd(_, _)
StringEnd(data, i) ==
    IF i >= Len(data) THEN NoToken
    ELSE IF At(data, i) < 32 THEN NoToken
    ELSE IF At(data, i) = QUOTE THEN Token(i + 1, 0)
    ELSE IF At(data, i) # BACKSLASH THEN StringEnd(data, i + 1)
    ELSE IF i + 1 < Len(data) /\ At(data, i + 1) \in EscapeBytes
         THEN StringEnd(data, i + 2)
    ELSE IF /\ i + 5 < Len(data)
            /\ At(data, i + 1) = 117
            /\ \A k \in 2..5 : At(data, i + k) \in HexBytes
         THEN StringEnd(data, i + 6)
    ELSE NoToken

\* C13: called just past an opening quote, isValidateString succeeds if and
\* only if it reaches a closing quote that is not escaped, having seen only
\* bytes of 0x20 or more and the escapes \" \\ \/ \b \f \n \r \t and \u with
\* four hexadecimal digits, and it returns the index past that quote; a raw
\* control byte, another escape, a \u with fewer than four hexadecimal
\* digits and the end of the input before the closing quote fail.
C13_StringScanner ==
    Returned("isValidateString")
        => LET g == StringEnd(json, unit.i)
           IN  /\ unit.res.ok <=> g.ok
               /\ unit.res.ok => unit.res.outi = g.end

\* an escaped quote inside the string, which ends at the next quote
C13_Witness ==
    /\ Returned("isValidateString")
    /\ json = <<QUOTE, BACKSLASH, QUOTE, LowerA, QUOTE>>
    /\ unit.res.ok
    /\ unit.res.outi = 5

\* C14: every result validany, isValidObject and isValidArray return with
\* ok = true has a nil error: a limit violation found inside one of them
\* comes back with ok = false.
C14_OkImpliesNilError ==
    (phase = "called" /\ unit.fn \in {"validany", "isValidArray", "isValidObject"})
        => (unit.res.ok => unit.res.err.nil)

\* C14 for isValidObject alone, which tests the error of a member's value
C14_ObjectOnly ==
    Returned("isValidObject") => (unit.res.ok => unit.res.err.nil)

\* how many members (a key, a colon and a value of the grammar) follow one
\* another from index i of an object, n of them counted already
RECURSIVE WellFormedMembers(_, _, _)
WellFormedMembers(data, i, n) ==
    LET k == GrammarString(data, GrammarWS(data, i))
        c == GrammarWS(data, k.end)
        v == GrammarValue(data, GrammarWS(data, c + 1))
        j == GrammarWS(data, v.end)
    IN  IF ~k.ok \/ ~Has(data, c, COLON) THEN n
        ELSE IF ~v.ok THEN n
        ELSE IF Has(data, j, COMMA) THEN WellFormedMembers(data, j + 1, n + 1)
        ELSE n + 1

\* the most members any object of the text has (the generated texts have
\* no brace inside a string)
MaxMembers(data) ==
    SeqMax([p \in 1..Len(data) |->
              IF data[p] = LBRACE THEN WellFormedMembers(data, p, 0) ELSE 0])

IsEntryCountError(e, v, data) ==
    /\ ~e.nil
    /\ e # ErrInvalidJSON
    /\ \E n \in 0..Len(data) : e = EntryCountError(v, n)

\* C16: an object's entry counter is incremented and compared with the
\* maximum N only after a member (key, colon, value) has been validated:
\* the entry-count error is reported only for a text with an object of more
\* than N well-formed members, and when a key among the first N+1 of an
\* object exceeds the key-length limit the result is the key-length error.
C16_CountAfterMember ==
    (Called /\ verifier.objectEntryCountEnabled)
        => LET N == verifier.ObjectEntryCount
               K == verifier.ObjectKeyLength
               m == Measure(json)
           IN  /\ IsEntryCountError(err, verifier, json) => MaxMembers(json) > N
               /\ (/\ EnabledChecks(verifier) = {"entry", "key"}
                   /\ m.ok /\ m.depth = 1 /\ Len(m.objs) = 1
                   /\ Over(m.keys, K) # {}
                   /\ FirstOver(m.keys, K) <= N + 1)
                    => err = LimitError(objectKeyValueLength, K,
                                        m.keys[FirstOver(m.keys, K)])

\* C16 on the documents of the grammar, with the key-length check disabled
C16_ValidDocuments ==
    (IsJSONText(json) /\ ~verifier.objectKeyLengthEnabled) => C16_CountAfterMember

\* an execution of VerifyBytes is under way or over
Executing == phase \in {"running", "verified"} /\ run.pc # "idle"

\* the step reads '{' or '[' as the beginning of a value
EntersContainer ==
    /\ run.pc = "any"
    /\ InRange(run.i)
    /\ At(json, run.i) \in {LBRACE, LBRACKET}

\* the step reads the closing bracket of the container in progress, and
\* the container's validator returns behind it
ConsumesCloser ==
    /\ InRange(run.i)
    /\ \/ run.pc \in {"arr", "arr_count"} /\ At(json, run.i) = RBRACKET
       \/ run.pc \in {"obj", "obj_close"} /\ At(json, run.i) = RBRACE
    /\ run'.pc = "return"
    /\ run'.ok
    /\ run'.i = run.i + 1

\* what a step does to the counter
DepthStep ==
    (phase = "running" /\ phase' = "running") =>
        run'.depth = run.depth + (IF EntersContainer THEN 1 ELSE 0)
                               - (IF ConsumesCloser THEN 1 ELSE 0)

\* the counter at a state of an execution
DepthPaired ==
    Executing =>
        /\ run.depth = run.opened - run.closed
        /\ run.depth >= 0
        /\ (run.pc \notin {"exit", "done"} /\ (run.pc = "return" => run.ok))
               => run.depth = Len(run.stack) - 1
        /\ (run.pc = "done" /\ ok /\ err.nil) => run.depth = 0

\* C15: during a VerifyBytes call a step adds one to the depth counter
\* exactly when it enters a '{' or '[' and takes one off exactly when it
\* consumes the closing bracket of the container, so the counter is at
\* every step the number of containers opened and not yet closed, is never
\* negative, and is 0 when VerifyBytes returns (true, nil).
C15_DepthPairing == []DepthPaired /\ [][DepthStep]_vars

\* C15 happens: a document with a container inside a container has been
\* accepted, each bracket opened and closed
C15_NestedAccepted ==
    /\ phase = "verified"
    /\ run.pc = "done"
    /\ ok /\ err.nil
    /\ run.opened >= 2
    /\ run.closed = run.opened

\* the buffers the claim names: empty, and ending right after '-', a
\* backslash, \u, 't', a comma or a colon
EndsAbruptly ==
    \/ json = <<>>
    \/ \E e \in {<<MINUS>>, <<BACKSLASH>>, <<BACKSLASH, LowerU>>, <<LowerT>>,
                  <<COMMA>>, <<COLON>>} :
         /\ Len(json) >= Len(e)
         /\ SubSeq(json, Len(json) - Len(e) + 1, Len(json)) = e

\* C17: for every buffer and every configuration no step of VerifyBytes
\* reads the buffer outside [0, len) or slices it past its end, so the call
\* never panics, and a call that has begun returns a result.
C17_BoundsSafety ==
    /\ [](Executing => ~run.panic /\ run.pc # "panic")
    /\ (phase = "running" ~> phase = "verified")

\* C17 happens: a buffer that ends right after a backslash inside a string
\* has been scanned up to its end, and VerifyBytes has returned
C17_TruncatedRead ==
    /\ phase = "verified"
    /\ run.pc = "done"
    /\ EndsAbruptly
    /\ Len(json) >= 3
    /\ json[Len(json)] = BACKSLASH
    /\ run.i = Len(json)
    /\ ~ok

====
